---- MODULE Spec2Model ----
(***************************************************************************)
(* Model of the sentiment-analysis service: the model cache (load_model),  *)
(* the inference function (analyze_sentiment), the single-text analyze     *)
(* handler and the batch handler with their writes to the key-value table. *)
(*                                                                         *)
(* The two Lambda functions are two Python modules, each with its own      *)
(* globals `model` / `tokenizer` and its own local model directory; they   *)
(* are indexed here by "analyzer" and "batch".                             *)
(*                                                                         *)
(* Specifications:                                                         *)
(*   Spec         the handlers, one request at a time; a run exercises one *)
(*                of the two functions                                     *)
(*   SpecStore    the whole service on one table: analyze, batch and       *)
(*                history requests, one at a time, with a healthy model    *)
(*                bucket                                                   *)
(*   SpecCache    load_model and analyze_sentiment called one after the    *)
(*                other in one process                                     *)
(*   SpecThreads  first calls of load_model interleaved in one process     *)
(*   SpecKeys     save_batch_results and get_batch_results called on one   *)
(*                table with row indices of every width                    *)
(*   SpecLocal    the routes /analyze and /batch of local_server.py        *)
(***************************************************************************)
EXTENDS Integers, Sequences, FiniteSets, TLC

VARIABLES
    function,       \* the Lambda function the run exercises, "service" or "local"
    AWS_AVAILABLE,  \* module global: the boto3 clients could be created
    model,          \* [module -> None or the InferenceSession]
    tokenizer,      \* [module -> None or the Tokenizer]
    files,          \* [module -> files present under MODEL_PATH]
    table,          \* the key-value table: [key -> item]
    now,            \* int(datetime.now().timestamp())
    pc,             \* position of the request in flight
    body,           \* the analyze or batch request being served
    query,          \* the history request being served
    batch_id,       \* local of the batch handler
    rows,           \* local of the batch handler
    i,              \* iterations of the row loop begun
    results,        \* local of the batch handler
    inferred,       \* per text of the request, what its inference did
    put_failed,     \* a put_item of the request raised
    published,      \* the notifications published by the request
    response,       \* the response of the request
    submitted,      \* texts submitted so far, one per analyze request or row
    batches,        \* batch requests that reached the row loop so far
    downloads,      \* [module -> calls of download_model_from_s3 so far]
    call,           \* the last direct call of load_model / analyze_sentiment
    tpc,            \* position of each concurrent caller of load_model
    local_history   \* the in-memory list of local_server.py

config == <<function, AWS_AVAILABLE>>

cache == <<model, tokenizer, files>>

request == <<body, query, batch_id, rows, i, results, inferred, put_failed,
             published, response>>

\* the request without its response
request_locals == <<body, query, batch_id, rows, i, results, inferred,
                    put_failed, published>>

budget == <<submitted, batches>>

direct == <<downloads, call, tpc, local_history>>

vars == <<config, cache, table, now, pc, request, budget, direct>>

----------------------------------------------------------------------------
(* Bounds *)

\* texts submitted over a run, one per analyze request or batch row
MaxTexts == 3
\* batch requests that reach the row loop over a run
MaxBatches == 1
\* concurrent callers of load_model
MaxThreads == 2
\* row items kept in the table by direct calls of save_batch_results
MaxStored == 3
\* the count of downloads saturates here
MaxDownloads == 2

----------------------------------------------------------------------------
(* Values *)

None == 0

Modules == {"analyzer", "batch"}

ModelFile == "model.onnx"

TokenizerFile == "tokenizer.json"

MaxTextLen == 5000

\* A text is described by what the handlers and the tokenizer look at:
\* whether it is a str at all, its length, whether it is empty or whitespace
\* only, and the two logits the network produces for it.
TPos == [str |-> TRUE, len |-> 12, blank |-> FALSE, logits |-> <<0, 2>>]

TNeg == [str |-> TRUE, len |-> 11, blank |-> FALSE, logits |-> <<3, 0>>]

\* a value that is not a str (a number in the JSON, None from a short CSV line)
TBad == [str |-> FALSE, len |-> 0, blank |-> FALSE, logits |-> <<0, 0>>]

TEmpty == [str |-> TRUE, len |-> 0, blank |-> TRUE, logits |-> <<1, 1>>]

TLong == [str |-> TRUE, len |-> 5001, blank |-> FALSE, logits |-> <<0, 1>>]

BatchTexts == {TPos, TBad}

\* whitespace only
TBlank == [str |-> TRUE, len |-> 3, blank |-> TRUE, logits |-> <<1, 1>>]

\* one character, and the longest text accepted
TShort == [str |-> TRUE, len |-> 1, blank |-> FALSE, logits |-> <<1, 1>>]

TMax == [str |-> TRUE, len |-> 5000, blank |-> FALSE, logits |-> <<2, 0>>]

AnalyzeTexts == {TPos, TNeg, TBad, TEmpty, TLong, TBlank, TShort, TMax}

Users == {"u1"}

Absent == "<absent>"

AbsentId == <<"<absent>", 0>>

\* batch ids: supplied by the caller, or "batch-<timestamp>"
SuppliedIds == {<<"b", 1>>}

\* the callers of the batch handler with a `texts` array: one names neither
\* batch_id nor user_id, one names both
BatchCallers ==
    { [batch_id |-> AbsentId, user_id |-> Absent],
      [batch_id |-> <<"b", 1>>, user_id |-> "u1"] }

GeneratedId(timestamp) == <<"batch-", timestamp>>

\* the handlers a run exercises: one Lambda function, or all of them on the
\* one table named by DYNAMODB_TABLE
Runs(f) == function \in {f, "service"}

\* batch requests that reach the row loop in a run: the service serves one
\* more, so that a batch_id can be used again
BatchBudget == IF function = "service" THEN MaxBatches + 1 ELSE MaxBatches

\* no history request in flight
NoQuery ==
    [user_id |-> Absent, batch_id |-> AbsentId, limit |-> <<>>, served |-> 0,
     reads |-> <<>>]

\* outcomes of one call of download_model_from_s3: how the listing went and
\* which files ended up under MODEL_PATH
DownloadOutcomes ==
    { [kind |-> "ok", got |-> {ModelFile, TokenizerFile}],
      [kind |-> "ok", got |-> {TokenizerFile}],
      [kind |-> "ok", got |-> {ModelFile}],
      [kind |-> "unreachable", got |-> {}],
      [kind |-> "nocontents", got |-> {}],
      [kind |-> "nobucket", got |-> {}] }

\* the outcomes met by the handlers: the bucket delivers the whole model or
\* nothing (the incomplete deliveries are explored by SpecCache and
\* SpecThreads)
HandlerOutcomes ==
    {o \in DownloadOutcomes : o.got \in {{}, {ModelFile, TokenizerFile}}}

----------------------------------------------------------------------------
(* The model cache *)

Cache(m) ==
    [model |-> model[m], tokenizer |-> tokenizer[m], files |-> files[m],
     fetched |-> FALSE, raised |-> FALSE]

\* a newly created object: distinct from None and from the object it replaces
NewObject(old) == IF old = 1 THEN 2 ELSE 1

\* download_model_from_s3: the analyzer returns silently when the listing has
\* no Contents, the batch processor raises
DownloadRaises(m, o) ==
    \/ o.kind = "unreachable"
    \/ o.kind = "nocontents" /\ m = "batch"

download_model_from_s3(m, c, o) ==
    [c EXCEPT !.files = @ \cup o.got,
              !.fetched = TRUE,
              !.raised = DownloadRaises(m, o)]

\* Tokenizer.from_file(tokenizer.json)
LoadTokenizer(c) ==
    IF TokenizerFile \in c.files
    THEN [c EXCEPT !.tokenizer = NewObject(@)]
    ELSE [c EXCEPT !.raised = TRUE]

\* ort.InferenceSession(model.onnx)
LoadSession(c) ==
    IF ModelFile \in c.files
    THEN [c EXCEPT !.model = NewObject(@)]
    ELSE [c EXCEPT !.raised = TRUE]

Resident(c) == c.model # None /\ c.tokenizer # None

\* variant: the download is not guarded by os.path.exists
AlwaysDownload(c) == TRUE

NeedsDownload(c) == ModelFile \notin c.files

load_model(m, c, o) ==
    IF Resident(c) THEN c
    ELSE LET c1 == IF NeedsDownload(c) THEN download_model_from_s3(m, c, o)
                   ELSE c
         IN  IF c1.raised THEN c1
             ELSE LET c2 == LoadTokenizer(c1)
                  IN  IF c2.raised THEN c2 ELSE LoadSession(c2)

SetCache(m, c) ==
    /\ model' = [model EXCEPT ![m] = c.model]
    /\ tokenizer' = [tokenizer EXCEPT ![m] = c.tokenizer]
    /\ files' = [files EXCEPT ![m] = c.files]

----------------------------------------------------------------------------
(* Inference *)

\* 1000 * exp(d) for the differences x - max(x) that occur (d <= 0)
Exp1000(d) ==
    CASE d = 0 -> 1000
      [] d = -1 -> 368
      [] d = -2 -> 135
      [] d = -3 -> 50
      [] OTHER -> 18

Max2(a, b) == IF a >= b THEN a ELSE b

\* softmax(x): e_x = exp(x - max(x)); e_x / e_x.sum().  A probability is the
\* fraction <<numerator, denominator>>.
softmax(x) ==
    LET e == [k \in 1..2 |-> Exp1000(x[k] - Max2(x[1], x[2]))]
    IN  [k \in 1..2 |-> <<e[k], e[1] + e[2]>>]

\* variant: the index of the smaller probability
argmin(p) == IF p[2][1] > p[1][1] THEN 0 ELSE 1

\* np.argmax: the first index holding the maximum, zero based
argmax(p) == IF p[2][1] > p[1][1] THEN 1 ELSE 0

sentiment_map(idx) == IF idx = 0 THEN "NEGATIVE" ELSE "POSITIVE"

\* tokenizer.encode / model.run raise on a value that is not a str, or on
\* an engine fault
InferenceRaises(text, fault) == ~text.str \/ fault

InferenceResult(text) ==
    LET p == softmax(text.logits)
        idx == argmax(p)
    IN  [sentiment |-> sentiment_map(idx), confidence |-> p[idx + 1],
         error |-> ""]

ErrorSentinel ==
    [sentiment |-> "ERROR", confidence |-> <<0, 1>>, error |-> "inference"]

\* no value: the call raised
Nothing == [sentiment |-> "", confidence |-> <<0, 1>>, error |-> ""]

\* analyze_sentiment of batch_handler.py: load_model is called outside the
\* try block, tokenize and forward pass inside it.  `event` records what
\* happened: "ok", "infer_raised" (caught here) or "load_raised" (propagates).
batch_analyze_sentiment(c, text, o, fault) ==
    LET c1 == IF c.model = None \/ c.tokenizer = None
              THEN load_model("batch", c, o) ELSE c
    IN  IF c1.raised
        THEN [cache |-> c1, raised |-> TRUE, event |-> "load_raised",
              result |-> Nothing]
        ELSE IF InferenceRaises(text, fault)
        THEN [cache |-> c1, raised |-> FALSE, event |-> "infer_raised",
              result |-> ErrorSentinel]
        ELSE [cache |-> c1, raised |-> FALSE, event |-> "ok",
              result |-> InferenceResult(text)]

\* analyze_sentiment of lambda_function.py: no try block at all
analyzer_analyze_sentiment(c, text, o, fault) ==
    LET c1 == IF c.model = None \/ c.tokenizer = None
              THEN load_model("analyzer", c, o) ELSE c
    IN  IF c1.raised
        THEN [cache |-> c1, raised |-> TRUE, event |-> "load_raised",
              result |-> Nothing]
        ELSE IF InferenceRaises(text, fault)
        THEN [cache |-> c1, raised |-> TRUE, event |-> "infer_raised",
              result |-> Nothing]
        ELSE [cache |-> c1, raised |-> FALSE, event |-> "ok",
              result |-> InferenceResult(text)]

----------------------------------------------------------------------------
(* The key-value table *)

RECURSIVE Digits(_)
\* str(n) as a sequence of decimal digits
Digits(n) == IF n < 10 THEN <<n>> ELSE Append(Digits(n \div 10), n % 10)

RECURSIVE zfill(_, _)
\* str.zfill(width)
zfill(s, width) == IF Len(s) >= width THEN s ELSE zfill(<<0>> \o s, width)

RowPad == 6

UserPK(user_id) == <<"USER", user_id>>

BatchPK(b) == <<"BATCH", b>>

AnalysisSK(timestamp) == <<"ANALYSIS", timestamp>>

\* variant: the row index without padding
RowSKUnpadded(row) == <<"ROW", Digits(row)>>

RowSK(row) == <<"ROW", zfill(Digits(row), RowPad)>>

SummarySK == <<"SUMMARY">>

BatchSK(b) == <<"BATCH", b>>

Key(item) == [PK |-> item.PK, SK |-> item.SK]

EmptyTable == [k \in {} |-> 0]

\* table.put_item(Item=item): creates the item or replaces the one that has
\* the same key
put_item(t, item) ==
    [k \in DOMAIN t \cup {Key(item)} |-> IF k = Key(item) THEN item ELSE t[k]]

----------------------------------------------------------------------------
(* The single-text analyze handler (lambda_function.py) *)

OrDefault(v, default) == IF v = Absent THEN default ELSE v

\* variant: the validation without strip()
ValidateUnstripped(text) ==
    IF ~text.str THEN "raise"
    ELSE IF text.len = 0 THEN "empty"
    ELSE IF text.len > MaxTextLen THEN "too_long"
    ELSE "ok"

\* the validation of lambda_handler: `not text or len(text.strip()) == 0`
\* raises on a value that has no strip(); then the length limit
Validate(text) ==
    IF ~text.str THEN "raise"
    ELSE IF text.len = 0 \/ text.blank THEN "empty"
    ELSE IF text.len > MaxTextLen THEN "too_long"
    ELSE "ok"

AnalysisItem(user_id, text, result, timestamp) ==
    [PK |-> UserPK(user_id), SK |-> AnalysisSK(timestamp), text |-> text,
     sentiment |-> result.sentiment, confidence |-> result.confidence,
     timestamp |-> timestamp, created_at |-> timestamp]

\* what a save meets: the DYNAMODB_TABLE variable is not set, put_item
\* raises, or all is well
PutOutcomes == {"ok", "raise", "no_table_name"}

\* save_to_dynamodb: returns the status dict; the try block keeps every
\* exception of the write inside (raised: an exception leaves the function)
save_to_dynamodb(t, user_id, text, result, timestamp, put) ==
    IF ~AWS_AVAILABLE
    THEN [table |-> t, put_raised |-> FALSE, raised |-> FALSE,
          status |-> [success |-> TRUE, error |-> ""]]
    ELSE IF put = "no_table_name"
    THEN [table |-> t, put_raised |-> FALSE, raised |-> FALSE,
          status |-> [success |-> FALSE, error |-> "env var missing"]]
    ELSE IF put = "raise"
    THEN [table |-> t, put_raised |-> TRUE, raised |-> FALSE,
          status |-> [success |-> FALSE, error |-> "put_item"]]
    ELSE [table |-> put_item(t, AnalysisItem(user_id, text, result, timestamp)),
          put_raised |-> FALSE, raised |-> FALSE,
          status |-> [success |-> TRUE, error |-> ""]]

Response(handler, statusCode, payload) ==
    [handler |-> handler, statusCode |-> statusCode, body |-> payload]

AnalyzeOk(user_id, result, timestamp, db_status) ==
    Response("analyze", 200,
             [user_id |-> user_id, sentiment |-> result.sentiment,
              confidence |-> result.confidence, timestamp |-> timestamp,
              db_save_status |-> db_status])

AnalyzeError(message) ==
    Response("analyze", 500,
             [error |-> "Internal server error", message |-> message])

AnalyzeRejected(why) == Response("analyze", 400, [error |-> why])

\* lambda_handler of lambda_function.py on the cache c and the table t at
\* the second `timestamp`: what it leaves behind and what it returns
lambda_handler(c, t, text, user, o, fault, put, timestamp) ==
    LET user_id == OrDefault(user, "anonymous")
        v == Validate(text)
        a == analyzer_analyze_sentiment(c, text, o, fault)
        saved == save_to_dynamodb(t, user_id, text, a.result, timestamp, put)
    IN  IF v = "raise"
        THEN [cache |-> c, table |-> t, response |-> AnalyzeError("strip"),
              inferred |-> <<>>, put_failed |-> FALSE]
        ELSE IF v # "ok"
        THEN [cache |-> c, table |-> t, response |-> AnalyzeRejected(v),
              inferred |-> <<>>, put_failed |-> FALSE]
        ELSE IF a.raised
        THEN [cache |-> a.cache, table |-> t,
              response |-> AnalyzeError(a.event),
              inferred |-> <<a.event>>, put_failed |-> FALSE]
        ELSE [cache |-> a.cache, table |-> saved.table,
              response |-> IF saved.raised THEN AnalyzeError("save")
                           ELSE AnalyzeOk(user_id, a.result, timestamp,
                                          saved.status),
              inferred |-> <<a.event>>, put_failed |-> saved.put_raised]

\* one whole request served by lambda_handler of lambda_function.py
Analyze(text, user, o, fault, put) ==
    /\ Runs("analyzer")
    /\ pc = "idle"
    /\ submitted < MaxTexts
    /\ submitted' = submitted + 1
    /\ pc' = "done"
    /\ LET h == lambda_handler(Cache("analyzer"), table, text, user, o, fault,
                               put, now)
       IN  /\ SetCache("analyzer", h.cache)
           /\ table' = h.table
           /\ response' = h.response
           /\ inferred' = h.inferred
           /\ put_failed' = h.put_failed
    /\ body' = [texts |-> <<text>>, key |-> "", batch_id |-> AbsentId,
                user_id |-> user]
    /\ UNCHANGED <<config, now, query, batch_id, rows, i, results, published,
                   batches, direct>>

----------------------------------------------------------------------------
(* The batch handler (batch_handler.py) *)

\* what s3_client.get_object and csv.DictReader produce for the key: the
\* download raises, or the file has a header (with or without a `text`
\* column) and lines
CsvOutcomes ==
    { [kind |-> "raise", has_text |-> FALSE, lines |-> <<>>],
      [kind |-> "file", has_text |-> FALSE,
       lines |-> <<[text |-> TPos, user_id |-> "u1"]>>],
      [kind |-> "file", has_text |-> TRUE, lines |-> <<>>],
      [kind |-> "file", has_text |-> TRUE,
       lines |-> <<[text |-> TPos, user_id |-> "u1"],
                   [text |-> TBad, user_id |-> "u2"]>>],
      [kind |-> "file", has_text |-> TRUE,
       lines |-> <<[text |-> TEmpty, user_id |-> "u1"],
                   [text |-> TLong, user_id |-> "u1"]>>],
      [kind |-> "file", has_text |-> TRUE,
       lines |-> <<[text |-> TBad, user_id |-> Absent],
                   [text |-> TNeg, user_id |-> Absent],
                   [text |-> TPos, user_id |-> Absent]>>] }

SampleRows ==
    << [text |-> TPos, user_id |-> Absent, row |-> 0],
       [text |-> TNeg, user_id |-> Absent, row |-> 1],
       [text |-> TPos, user_id |-> Absent, row |-> 2] >>

\* variant: process_csv_file numbering the lines of the file from one
process_csv_file_from_one(csv) ==
    IF ~AWS_AVAILABLE THEN [raised |-> FALSE, rows |-> SampleRows]
    ELSE IF csv.kind = "raise" THEN [raised |-> TRUE, rows |-> <<>>]
    ELSE IF ~csv.has_text THEN [raised |-> FALSE, rows |-> <<>>]
    ELSE [raised |-> FALSE,
          rows |-> [k \in 1..Len(csv.lines) |->
                      [text |-> csv.lines[k].text,
                       user_id |-> OrDefault(csv.lines[k].user_id, "anonymous"),
                       row |-> k]]]

\* process_csv_file: sample data without AWS; otherwise one row per line of
\* a file that has a `text` column, numbered by enumerate
process_csv_file(csv) ==
    IF ~AWS_AVAILABLE THEN [raised |-> FALSE, rows |-> SampleRows]
    ELSE IF csv.kind = "raise" THEN [raised |-> TRUE, rows |-> <<>>]
    ELSE IF ~csv.has_text THEN [raised |-> FALSE, rows |-> <<>>]
    ELSE [raised |-> FALSE,
          rows |-> [k \in 1..Len(csv.lines) |->
                      [text |-> csv.lines[k].text,
                       user_id |-> OrDefault(csv.lines[k].user_id, "anonymous"),
                       row |-> k - 1]]]

\* rows built from a direct `texts` array
TextRows(texts, user) ==
    [k \in 1..Len(texts) |->
        [text |-> texts[k], user_id |-> OrDefault(user, "batch-user"),
         row |-> k - 1]]

\* variant: the row loop without its except branch for the row
ProcessRowSkipping(res, row, a) ==
    IF ~a.raised
    THEN Append(res, [row |-> row.row, text |-> row.text,
                      user_id |-> OrDefault(row.user_id, "anonymous"),
                      sentiment |-> a.result.sentiment,
                      confidence |-> a.result.confidence,
                      status |-> "success", error |-> ""])
    ELSE res

\* the body of the row loop: what is appended to `results` for `row` after
\* analyze_sentiment returned (a) or raised
ProcessRow(res, row, a) ==
    IF ~a.raised
    THEN Append(res, [row |-> row.row, text |-> row.text,
                      user_id |-> OrDefault(row.user_id, "anonymous"),
                      sentiment |-> a.result.sentiment,
                      confidence |-> a.result.confidence,
                      status |-> "success", error |-> ""])
    ELSE Append(res, [row |-> row.row, text |-> row.text,
                      user_id |-> Absent,
                      sentiment |-> "ERROR", confidence |-> <<0, 1>>,
                      status |-> "failed", error |-> a.event])

SuccessCount(res) ==
    Cardinality({k \in 1..Len(res) : res[k].status = "success"})

\* variant: the failures counted by their sentiment
FailedCountBySentiment(res) ==
    Cardinality({k \in 1..Len(res) : res[k].sentiment = "ERROR"})

FailedCount(res) == Len(res) - SuccessCount(res)

RowItem(b, r, timestamp) ==
    [PK |-> BatchPK(b), SK |-> RowSK(r.row), text |-> r.text,
     sentiment |-> r.sentiment, confidence |-> r.confidence,
     user_id |-> OrDefault(r.user_id, "anonymous"),
     timestamp |-> timestamp, status |-> r.status]

SummaryItem(b, res, timestamp) ==
    [PK |-> BatchPK(b), SK |-> SummarySK, total_rows |-> Len(res),
     success_count |-> SuccessCount(res), failed_count |-> FailedCount(res),
     status |-> "COMPLETED", timestamp |-> timestamp,
     completed_at |-> timestamp]

\* variant: the link named after a batch_id generated again at the save
UserLinkItemRenamed(b, res, timestamp) ==
    [PK |-> UserPK(OrDefault(res[1].user_id, "anonymous")),
     SK |-> BatchSK(GeneratedId(timestamp + 1)),
     batch_id |-> GeneratedId(timestamp + 1), total_rows |-> Len(res),
     success_count |-> SuccessCount(res), failed_count |-> FailedCount(res),
     status |-> "COMPLETED", timestamp |-> timestamp,
     created_at |-> timestamp, type |-> "BATCH"]

UserLinkItem(b, res, timestamp) ==
    [PK |-> UserPK(OrDefault(res[1].user_id, "anonymous")), SK |-> BatchSK(b),
     batch_id |-> b, total_rows |-> Len(res),
     success_count |-> SuccessCount(res), failed_count |-> FailedCount(res),
     status |-> "COMPLETED", timestamp |-> timestamp,
     created_at |-> timestamp, type |-> "BATCH"]

\* variant: the summary put before the row items
BatchItemsSummaryFirst(b, res, timestamp) ==
    <<SummaryItem(b, res, timestamp)>>
    \o [k \in 1..Len(res) |-> RowItem(b, res[k], timestamp)]
    \o (IF res # <<>> THEN <<UserLinkItem(b, res, timestamp)>> ELSE <<>>)

\* the items save_batch_results puts, in the order it puts them
BatchItems(b, res, timestamp) ==
    [k \in 1..Len(res) |-> RowItem(b, res[k], timestamp)]
    \o <<SummaryItem(b, res, timestamp)>>
    \o (IF res # <<>> THEN <<UserLinkItem(b, res, timestamp)>> ELSE <<>>)

RECURSIVE PutAll(_, _)
\* put_item for each item in turn
PutAll(t, items) ==
    IF items = <<>> THEN t ELSE PutAll(put_item(t, Head(items)), Tail(items))

\* variant: save_batch_results without its try block
save_batch_results_unguarded(t, b, res, timestamp, fail_at) ==
    IF ~AWS_AVAILABLE \/ fail_at = -1
    THEN [table |-> t, put_raised |-> FALSE, raised |-> FALSE]
    ELSE LET items == BatchItems(b, res, timestamp)
         IN  IF fail_at \in 1..Len(items)
             THEN [table |-> PutAll(t, SubSeq(items, 1, fail_at - 1)),
                   put_raised |-> TRUE, raised |-> TRUE]
             ELSE [table |-> PutAll(t, items), put_raised |-> FALSE,
                   raised |-> FALSE]

\* save_batch_results: nothing is saved without AWS or without a table name
\* (fail_at = -1); otherwise the fail_at-th put_item raises (0: none does),
\* the exception is caught and the function returns (raised: an exception
\* leaves the function)
save_batch_results(t, b, res, timestamp, fail_at) ==
    IF ~AWS_AVAILABLE \/ fail_at = -1
    THEN [table |-> t, put_raised |-> FALSE, raised |-> FALSE]
    ELSE LET items == BatchItems(b, res, timestamp)
         IN  IF fail_at \in 1..Len(items)
             THEN [table |-> PutAll(t, SubSeq(items, 1, fail_at - 1)),
                   put_raised |-> TRUE, raised |-> FALSE]
             ELSE [table |-> PutAll(t, items), put_raised |-> FALSE,
                   raised |-> FALSE]

\* send_completion_notification: skipped without AWS or without a topic, and
\* a failed publish is only logged (pub_ok: the topic is set and the publish
\* succeeds)
send_completion_notification(q, b, success_count, failed_count, pub_ok) ==
    IF ~AWS_AVAILABLE \/ ~pub_ok THEN q
    ELSE Append(q, [batch_id |-> b, total |-> success_count + failed_count,
                    success_count |-> success_count,
                    failed_count |-> failed_count])

BatchOk(b, res) ==
    Response("batch", 200,
             [batch_id |-> b, total_rows |-> Len(res),
              success_count |-> SuccessCount(res),
              failed_count |-> FailedCount(res), status |-> "COMPLETED"])

BatchRejected(why) == Response("batch", 400, [error |-> why])

BatchError(message) ==
    Response("batch", 500,
             [error |-> "Batch processing failed", message |-> message])

\* variant: lambda_handler without the `if not rows` check
BatchBeginUnchecked(texts, key, bid, user, csv) ==
    /\ Runs("batch")
    /\ pc = "idle"
    /\ body' = [texts |-> texts, key |-> key, batch_id |-> bid,
                user_id |-> user]
    /\ batch_id' = IF bid = AbsentId THEN GeneratedId(now) ELSE bid
    /\ i' = 0
    /\ results' = <<>>
    /\ inferred' = <<>>
    /\ put_failed' = FALSE
    /\ LET read == process_csv_file(csv)
           built == IF texts # <<>> THEN TextRows(texts, user)
                    ELSE IF key # "" THEN read.rows
                    ELSE <<>>
       IN  /\ submitted + Len(built) <= MaxTexts
           /\ submitted' = submitted + Len(built)
           /\ built # <<>> => batches < BatchBudget
           /\ batches' = IF built # <<>> THEN batches + 1 ELSE batches
           /\ rows' = built
           /\ IF texts = <<>> /\ key # "" /\ read.raised
              THEN /\ response' = BatchError("csv")
                   /\ pc' = "done"
              ELSE IF texts = <<>> /\ key = ""
              THEN /\ response' = BatchRejected("texts or key required")
                   /\ pc' = "done"
              ELSE /\ pc' = "loop"
                   /\ UNCHANGED response
    /\ UNCHANGED <<config, cache, table, now, query, published, direct>>

\* lambda_handler up to the row loop: parse the request, build the rows
BatchBegin(texts, key, bid, user, csv) ==
    /\ Runs("batch")
    /\ pc = "idle"
    /\ body' = [texts |-> texts, key |-> key, batch_id |-> bid,
                user_id |-> user]
    /\ batch_id' = IF bid = AbsentId THEN GeneratedId(now) ELSE bid
    /\ i' = 0
    /\ results' = <<>>
    /\ inferred' = <<>>
    /\ put_failed' = FALSE
    /\ LET read == process_csv_file(csv)
           built == IF texts # <<>> THEN TextRows(texts, user)
                    ELSE IF key # "" THEN read.rows
                    ELSE <<>>
       IN  /\ submitted + Len(built) <= MaxTexts
           /\ submitted' = submitted + Len(built)
           /\ built # <<>> => batches < BatchBudget
           /\ batches' = IF built # <<>> THEN batches + 1 ELSE batches
           /\ rows' = built
           /\ IF texts = <<>> /\ key # "" /\ read.raised
              THEN /\ response' = BatchError("csv")
                   /\ pc' = "done"
              ELSE IF texts = <<>> /\ key = ""
              THEN /\ response' = BatchRejected("texts or key required")
                   /\ pc' = "done"
              ELSE IF built = <<>>
              THEN /\ response' = BatchRejected("no valid rows")
                   /\ pc' = "done"
              ELSE /\ pc' = "loop"
                   /\ UNCHANGED response
    /\ UNCHANGED <<config, cache, table, now, query, published, direct>>

\* variant: the loop takes the rows from the last to the first
BatchRowBackwards(o) ==
    /\ pc = "loop"
    /\ i < Len(rows)
    /\ LET row == rows[Len(rows) - i]
           a == batch_analyze_sentiment(Cache("batch"), row.text, o, FALSE)
       IN  /\ SetCache("batch", a.cache)
           /\ results' = ProcessRow(results, row, a)
           /\ inferred' = Append(inferred, a.event)
    /\ i' = i + 1
    /\ UNCHANGED <<config, table, now, pc, body, query, batch_id, rows,
                   put_failed, published, response, budget, direct>>

\* one iteration of `for row in rows`
BatchRow(o) ==
    /\ pc = "loop"
    /\ i < Len(rows)
    /\ LET row == rows[i + 1]
           a == batch_analyze_sentiment(Cache("batch"), row.text, o, FALSE)
       IN  /\ SetCache("batch", a.cache)
           /\ results' = ProcessRow(results, row, a)
           /\ inferred' = Append(inferred, a.event)
    /\ i' = i + 1
    /\ UNCHANGED <<config, table, now, pc, body, query, batch_id, rows,
                   put_failed, published, response, budget, direct>>

\* lambda_handler after the loop: save, notify, respond
BatchFinish(fail_at, pub_ok) ==
    /\ pc = "loop"
    /\ i = Len(rows)
    /\ LET saved == save_batch_results(table, batch_id, results, now, fail_at)
       IN  /\ table' = saved.table
           /\ put_failed' = saved.put_raised
           /\ published' =
                 IF saved.raised THEN published
                 ELSE send_completion_notification(
                          published, batch_id, SuccessCount(results),
                          FailedCount(results), pub_ok)
           /\ response' = IF saved.raised THEN BatchError("save")
                          ELSE BatchOk(batch_id, results)
    /\ pc' = "done"
    /\ UNCHANGED <<config, cache, now, body, query, batch_id, rows, i,
                   results, inferred, budget, direct>>

NoResponse == Response("none", 0, [error |-> ""])

NoBody == [texts |-> <<>>, key |-> "", batch_id |-> AbsentId, user_id |-> Absent]

\* requests that may have written to the table
Served ==
    CASE function = "analyzer" -> submitted
      [] function = "batch" -> batches
      [] OTHER -> submitted

\* the handler has returned: its locals are gone.  The next request arrives
\* in the same second (dt = 0) or in a later one (dt = 1): only the order and
\* the equality of timestamps matter, so the clock advances by at most one
\* second per request served.
Return(dt) ==
    /\ pc = "done"
    /\ pc' = "idle"
    /\ dt = 1 => now < Served
    /\ now' = now + dt
    /\ body' = NoBody
    /\ query' = NoQuery
    /\ batch_id' = AbsentId
    /\ rows' = <<>>
    /\ i' = 0
    /\ results' = <<>>
    /\ inferred' = <<>>
    /\ put_failed' = FALSE
    /\ response' = NoResponse
    /\ published' = <<>>
    /\ UNCHANGED <<config, cache, table, budget, direct>>

----------------------------------------------------------------------------
(* The history handler (history_handler.py) *)

DefaultLimit == 50

MaxLimit == 1000

FloorLimit == 10

\* Limit of the row query of get_batch_results
RowQueryLimit == 1000

\* Strings that are compared are sequences of character codes.
DigitCodes(ds) == [k \in 1..Len(ds) |-> 48 + ds[k]]

\* a batch id as a string: "b<n>" or "batch-<timestamp>"
IdString(b) ==
    (IF b[1] = "b" THEN <<98>> ELSE <<98, 97, 116, 99, 104, 45>>)
    \o DigitCodes(Digits(b[2]))

\* a sort key as a string: "ANALYSIS#<timestamp>", "BATCH#<batch_id>",
\* "ROW#<six digits>", "SUMMARY"
SortString(sk) ==
    CASE sk[1] = "ANALYSIS" ->
            <<65, 78, 65, 76, 89, 83, 73, 83, 35>> \o DigitCodes(Digits(sk[2]))
      [] sk[1] = "BATCH" -> <<66, 65, 84, 67, 72, 35>> \o IdString(sk[2])
      [] sk[1] = "ROW" -> <<82, 79, 87, 35>> \o DigitCodes(sk[2])
      [] OTHER -> <<83, 85, 77, 77, 65, 82, 89>>

RECURSIVE LexLess(_, _)
\* the order of strings: a < b
LexLess(a, b) ==
    IF b = <<>> THEN FALSE
    ELSE IF a = <<>> THEN TRUE
    ELSE IF Head(a) # Head(b) THEN Head(a) < Head(b)
    ELSE LexLess(Tail(a), Tail(b))

RECURSIVE Ascending(_)
\* the keys K in the order of their sort keys
Ascending(K) ==
    IF K = {} THEN <<>>
    ELSE LET first == CHOOSE k \in K :
                          \A j \in K \ {k} :
                              LexLess(SortString(k.SK), SortString(j.SK))
         IN  <<first>> \o Ascending(K \ {first})

Reverse(q) == [k \in 1..Len(q) |-> q[Len(q) + 1 - k]]

Take(q, n) == SubSeq(q, 1, IF Len(q) < n THEN Len(q) ELSE n)

\* table.query: the items of a partition whose sort key starts with `prefix`
\* ("" for all), by ascending or descending sort key, at most `limit` of them
Query(t, pk, prefix, forward, limit) ==
    LET K == {k \in DOMAIN t : k.PK = pk /\ (prefix = "" \/ k.SK[1] = prefix)}
        keys == IF forward THEN Ascending(K) ELSE Reverse(Ascending(K))
    IN  [k \in 1..Len(Take(keys, limit)) |-> t[keys[k]]]

\* what a read of the store meets
ReadOutcomes == {"ok", "raise", "no_table_name"}

SampleHistory ==
    << [type |-> "ANALYSIS", batch_id |-> AbsentId, sentiment |-> "POSITIVE",
        timestamp |-> 1699900000],
       [type |-> "ANALYSIS", batch_id |-> AbsentId, sentiment |-> "NEGATIVE",
        timestamp |-> 1699900060],
       [type |-> "ANALYSIS", batch_id |-> AbsentId, sentiment |-> "POSITIVE",
        timestamp |-> 1699900120] >>

\* one entry of the timeline, from an item of the user's partition
HistoryEntry(item) ==
    IF item.SK[1] = "BATCH"
    THEN [type |-> "BATCH", batch_id |-> item.batch_id,
          sentiment |-> item.status, timestamp |-> item.timestamp]
    ELSE [type |-> "ANALYSIS", batch_id |-> AbsentId,
          sentiment |-> item.sentiment, timestamp |-> item.timestamp]

\* get_user_history: sample data without AWS, nothing without a table name,
\* otherwise the user's partition by descending sort key, at most `limit`
get_user_history(t, user_id, limit, read) ==
    IF ~AWS_AVAILABLE
    THEN [raised |-> FALSE, reads |-> <<>>, history |-> SampleHistory]
    ELSE IF read = "no_table_name"
    THEN [raised |-> FALSE, reads |-> <<>>, history |-> <<>>]
    ELSE IF read = "raise"
    THEN [raised |-> TRUE, reads |-> <<"query raised">>, history |-> <<>>]
    ELSE LET items == Query(t, UserPK(user_id), "", FALSE, limit)
         IN  [raised |-> FALSE, reads |-> <<"query">>,
              history |-> [k \in 1..Len(items) |-> HistoryEntry(items[k])]]

RECURSIVE FromDigits(_)
\* int(s) for a string of decimal digits
FromDigits(ds) ==
    IF ds = <<>> THEN 0 ELSE 10 * FromDigits(SubSeq(ds, 1, Len(ds) - 1))
                             + ds[Len(ds)]

\* one row of get_batch_results, from a row item
BatchResultRow(item) ==
    [row |-> FromDigits(item.SK[2]), text |-> item.text,
     sentiment |-> item.sentiment, confidence |-> item.confidence,
     status |-> item.status]

RECURSIVE SortByRow(_)
\* results.sort(key=lambda x: x['row']): a stable sort, by insertion
SortByRow(q) ==
    IF q = <<>> THEN <<>>
    ELSE LET rest == SortByRow(SubSeq(q, 1, Len(q) - 1))
             x == q[Len(q)]
             n == Cardinality({k \in 1..Len(rest) : rest[k].row <= x.row})
         IN  SubSeq(rest, 1, n) \o <<x>> \o SubSeq(rest, n + 1, Len(rest))

SampleBatch(b) ==
    [found |-> TRUE, batch_id |-> b, status |-> "COMPLETED", total_rows |-> 100,
     success_count |-> 98, failed_count |-> 2,
     results |-> << [row |-> 0, text |-> TPos, sentiment |-> "POSITIVE",
                     confidence |-> <<95, 100>>, status |-> "unknown"],
                    [row |-> 1, text |-> TNeg, sentiment |-> "NEGATIVE",
                     confidence |-> <<87, 100>>, status |-> "unknown"] >>]

BatchNotFound(b) ==
    [found |-> FALSE, batch_id |-> b, status |-> "", total_rows |-> 0,
     success_count |-> 0, failed_count |-> 0, results |-> <<>>]

\* variant: get_batch_results without the `if not summary` check
get_batch_results_unchecked(t, b, read) ==
    IF ~AWS_AVAILABLE
    THEN [raised |-> FALSE, reads |-> <<>>, payload |-> SampleBatch(b)]
    ELSE IF read = "raise"
    THEN [raised |-> TRUE, reads |-> <<"get_item raised">>,
          payload |-> BatchNotFound(b)]
    ELSE LET key == [PK |-> BatchPK(b), SK |-> SummarySK]
             summary == IF key \in DOMAIN t THEN t[key]
                        ELSE [status |-> "UNKNOWN", total_rows |-> 0,
                              success_count |-> 0, failed_count |-> 0]
             items == Query(t, BatchPK(b), "ROW", TRUE, RowQueryLimit)
             read_rows == [k \in 1..Len(items) |-> BatchResultRow(items[k])]
         IN  [raised |-> FALSE, reads |-> <<"get_item", "query">>,
              payload |->
                  [found |-> TRUE, batch_id |-> b, status |-> summary.status,
                   total_rows |-> summary.total_rows,
                   success_count |-> summary.success_count,
                   failed_count |-> summary.failed_count,
                   results |-> SortByRow(read_rows)]]

\* get_batch_results: sample data without AWS; otherwise the summary is read
\* and, when there is one, the row items are queried and sorted
get_batch_results(t, b, read) ==
    IF ~AWS_AVAILABLE
    THEN [raised |-> FALSE, reads |-> <<>>, payload |-> SampleBatch(b)]
    ELSE IF read = "raise"
    THEN [raised |-> TRUE, reads |-> <<"get_item raised">>,
          payload |-> BatchNotFound(b)]
    ELSE LET key == [PK |-> BatchPK(b), SK |-> SummarySK]
         IN  IF key \notin DOMAIN t
             THEN [raised |-> FALSE, reads |-> <<"get_item">>,
                   payload |-> BatchNotFound(b)]
             ELSE LET items == Query(t, BatchPK(b), "ROW", TRUE, RowQueryLimit)
                      read_rows == [k \in 1..Len(items) |->
                                       BatchResultRow(items[k])]
                  IN  [raised |-> FALSE, reads |-> <<"get_item", "query">>,
                       payload |->
                           [found |-> TRUE, batch_id |-> b,
                            status |-> t[key].status,
                            total_rows |-> t[key].total_rows,
                            success_count |-> t[key].success_count,
                            failed_count |-> t[key].failed_count,
                            results |-> SortByRow(read_rows)]]

\* a limit that is floored but never capped
ClampLimitUncapped(limit) ==
    IF limit < 1 THEN FloorLimit ELSE limit

\* the limit of lambda_handler after `if limit > 1000` and `if limit < 1`
ClampLimit(limit) ==
    LET capped == IF limit > MaxLimit THEN MaxLimit ELSE limit
    IN  IF capped < 1 THEN FloorLimit ELSE capped

HistoryError(message) ==
    Response("history", 500,
             [error |-> "Failed to retrieve history", message |-> message])

\* a limit that int() does not accept
NotANumber == <<0, 0>>

\* variant: a request without batch_id is always taken as a timeline request
DispatchToUser(user_id, b) == IF b # AbsentId THEN "batch" ELSE "user"

\* the `if batch_id: ... elif user_id: ... else:` of lambda_handler
Dispatch(user_id, b) ==
    IF b # AbsentId THEN "batch"
    ELSE IF user_id # Absent THEN "user"
    ELSE "neither"

HistoryRejected ==
    Response("history", 400,
             [error |-> "Either user_id or batch_id parameter is required"])

\* lambda_handler of history_handler.py, one whole request; `limit` is <<>>
\* when the parameter is omitted, <<n>> for the integer n, or NotANumber
History(user_id, b, limit, read) ==
    /\ Runs("history")
    /\ pc = "idle"
    /\ pc' = "done"
    /\ LET effective == ClampLimit(IF limit = <<>> THEN DefaultLimit
                                   ELSE limit[1])
           batch == get_batch_results(table, b, read)
           user == get_user_history(table, user_id, effective, read)
           branch == Dispatch(user_id, b)
       IN  IF limit = NotANumber
           THEN /\ query' = [user_id |-> user_id, batch_id |-> b,
                             limit |-> limit, served |-> 0, reads |-> <<>>]
                /\ response' = HistoryError("int")
           ELSE IF branch = "batch"
           THEN /\ query' = [user_id |-> user_id, batch_id |-> b,
                             limit |-> limit, served |-> effective,
                             reads |-> batch.reads]
                /\ response' = IF batch.raised THEN HistoryError("get_item")
                               ELSE Response("history", 200, batch.payload)
           ELSE IF branch = "user"
           THEN /\ query' = [user_id |-> user_id, batch_id |-> b,
                             limit |-> limit, served |-> effective,
                             reads |-> user.reads]
                /\ response' = IF user.raised THEN HistoryError("query")
                               ELSE Response("history", 200,
                                             [user_id |-> user_id,
                                              count |-> Len(user.history),
                                              history |-> user.history])
           ELSE /\ query' = [user_id |-> user_id, batch_id |-> b,
                             limit |-> limit, served |-> effective,
                             reads |-> <<>>]
                /\ response' = HistoryRejected
    /\ UNCHANGED <<config, cache, table, now, body, batch_id, rows, i, results,
                   inferred, put_failed, published, budget, direct>>

----------------------------------------------------------------------------
(* Specification of the handlers *)

\* sequences over S of length 1..n
SeqsUpTo(S, n) == UNION {[1..k -> S] : k \in 1..n}

\* a cold start: nothing loaded, nothing under MODEL_PATH, an empty table
Cold ==
    /\ AWS_AVAILABLE \in BOOLEAN
    /\ model = [m \in Modules |-> None]
    /\ tokenizer = [m \in Modules |-> None]
    /\ files = [m \in Modules |-> {}]
    /\ table = EmptyTable
    /\ now = 0
    /\ pc = "idle"
    /\ body = NoBody
    /\ query = NoQuery
    /\ batch_id = AbsentId
    /\ rows = <<>>
    /\ i = 0
    /\ results = <<>>
    /\ inferred = <<>>
    /\ put_failed = FALSE
    /\ published = <<>>
    /\ response = NoResponse
    /\ submitted = 0
    /\ batches = 0
    /\ downloads = [m \in Modules |-> 0]
    /\ call = [fn |-> "none", module |-> "analyzer",
               before |-> [model |-> None, tokenizer |-> None, files |-> {},
                           fetched |-> FALSE, raised |-> FALSE],
               fetched |-> FALSE, raised |-> FALSE, event |-> "none",
               result |-> Nothing]
    /\ tpc = [t \in 1..MaxThreads |-> [m |-> "analyzer", at |-> "idle"]]
    /\ local_history = <<>>

Init == function \in Modules /\ Cold

AnalyzeRequest ==
    \E text \in AnalyzeTexts, user \in Users \cup {Absent},
       o \in HandlerOutcomes, fault \in BOOLEAN, put \in PutOutcomes :
        Analyze(text, user, o, fault, put)

BatchTextsRequest ==
    \E texts \in SeqsUpTo(BatchTexts, MaxTexts), caller \in BatchCallers :
        BatchBegin(texts, "", caller.batch_id, caller.user_id,
                   CHOOSE csv \in CsvOutcomes : TRUE)

BatchKeyRequest ==
    \E key \in {"", "uploads/a.csv"}, bid \in SuppliedIds \cup {AbsentId},
       csv \in CsvOutcomes :
        BatchBegin(<<>>, key, bid, Absent, csv)

BatchLoop == \E o \in HandlerOutcomes : BatchRow(o)

\* where a save may fail: no table name, nowhere, at the first row, at the
\* summary, at the user-batch link
FailPoints(res) == {-1, 0, 1, Len(res) + 1, Len(res) + 2}

BatchEnd == \E fail_at \in FailPoints(results), pub_ok \in BOOLEAN :
                BatchFinish(fail_at, pub_ok)

Returned == \E dt \in {0, 1} : Return(dt)

Next ==
    \/ AnalyzeRequest
    \/ BatchTextsRequest
    \/ BatchKeyRequest
    \/ BatchLoop
    \/ BatchEnd
    \/ Returned

Spec == Init /\ [][Next]_vars

----------------------------------------------------------------------------
(* Specification of the service: analyze, batch and history requests on one *)
(* table, the texts well formed and every write succeeding or failing at    *)
(* the summary                                                               *)

InitStore == function = "service" /\ Cold

Healthy == [kind |-> "ok", got |-> {ModelFile, TokenizerFile}]

Unreachable == [kind |-> "unreachable", got |-> {}]

\* the limits asked for: omitted, or a number
Limits == {<<>>, <<0>>, <<1>>, <<2>>, <<1001>>}

\* the history requests: the results of a batch, the timeline of a user with
\* a limit, or neither parameter
HistoryQueries ==
    {[user_id |-> Absent, batch_id |-> b, limit |-> <<>>] :
        b \in {<<"b", 1>>, <<"b", 2>>, GeneratedId(0)}}
    \cup {[user_id |-> "u1", batch_id |-> AbsentId, limit |-> l] : l \in Limits}
    \cup {[user_id |-> "batch-user", batch_id |-> AbsentId, limit |-> <<1000>>],
          [user_id |-> Absent, batch_id |-> AbsentId, limit |-> <<>>],
          [user_id |-> Absent, batch_id |-> AbsentId, limit |-> NotANumber],
          [user_id |-> "u1", batch_id |-> AbsentId, limit |-> NotANumber]}

\* the reads that fail: of the results of a batch, of a timeline
FailingQueries ==
    {[user_id |-> Absent, batch_id |-> <<"b", 1>>, limit |-> <<>>],
     [user_id |-> "u1", batch_id |-> AbsentId, limit |-> <<>>]}

StoreAnalyze ==
    \E text \in {TPos} : Analyze(text, "u1", Healthy, FALSE, "ok")

StoreBatch ==
    \E texts \in SeqsUpTo({TPos}, MaxTexts), caller \in BatchCallers :
        BatchBegin(texts, "", caller.batch_id, caller.user_id,
                   CHOOSE csv \in CsvOutcomes : TRUE)

StoreLoop == \E o \in {Healthy, Unreachable} : BatchRow(o)

StoreEnd == \E fail_at \in {0, Len(results) + 1} : BatchFinish(fail_at, TRUE)

HistoryRequest ==
    \E q \in HistoryQueries, read \in ReadOutcomes :
        /\ read # "ok" => q \in FailingQueries
        /\ History(q.user_id, q.batch_id, q.limit, read)

NextStore ==
    \/ StoreAnalyze
    \/ StoreBatch
    \/ StoreLoop
    \/ StoreEnd
    \/ HistoryRequest
    \/ Returned

SpecStore == InitStore /\ [][NextStore]_vars

----------------------------------------------------------------------------
(* Specification of the model cache: direct calls, one after the other *)

CountDownload(m, c) ==
    downloads' = [downloads EXCEPT
                    ![m] = IF c.fetched /\ @ < MaxDownloads THEN @ + 1 ELSE @]

\* load_model() of module m
LoadModelCall(m, o) ==
    /\ LET c == load_model(m, Cache(m), o)
       IN  /\ SetCache(m, c)
           /\ CountDownload(m, c)
           /\ call' = [fn |-> "load_model", module |-> m, before |-> Cache(m),
                       fetched |-> c.fetched, raised |-> c.raised,
                       event |-> IF c.raised THEN "load_raised" ELSE "ok",
                       result |-> Nothing]
    /\ UNCHANGED <<config, table, now, pc, request, budget, tpc, local_history>>

\* analyze_sentiment(text) of module m
AnalyzeSentimentCall(m, text, o, fault) ==
    /\ LET a == IF m = "batch"
                THEN batch_analyze_sentiment(Cache(m), text, o, fault)
                ELSE analyzer_analyze_sentiment(Cache(m), text, o, fault)
       IN  /\ SetCache(m, a.cache)
           /\ CountDownload(m, a.cache)
           /\ call' = [fn |-> "analyze_sentiment", module |-> m,
                       before |-> Cache(m), fetched |-> a.cache.fetched,
                       raised |-> a.raised, event |-> a.event,
                       result |-> a.result]
    /\ UNCHANGED <<config, table, now, pc, request, budget, tpc, local_history>>

LoadModelCalls ==
    \E m \in Modules, o \in DownloadOutcomes : LoadModelCall(m, o)

AnalyzeSentimentCalls ==
    \E m \in Modules, text \in {TPos, TNeg, TBad}, o \in DownloadOutcomes,
       fault \in BOOLEAN :
        AnalyzeSentimentCall(m, text, o, fault)

NextCache ==
    \/ LoadModelCalls
    \/ AnalyzeSentimentCalls

SpecCache == Init /\ [][NextCache]_vars

----------------------------------------------------------------------------
(* Specification of concurrent callers of load_model: the statements of     *)
(* load_model, one step each, interleaved between the threads of a process  *)

At(t, where) == tpc' = [tpc EXCEPT ![t].at = where]

\* a thread calls load_model() of module m
ThreadCall(t, m) ==
    /\ tpc[t].at = "idle"
    /\ tpc' = [tpc EXCEPT ![t] = [m |-> m, at |-> "check"]]
    /\ UNCHANGED <<config, cache, table, now, pc, request, budget, downloads,
                   call, local_history>>

\* `if model is not None and tokenizer is not None: return`
ThreadCheck(t) ==
    /\ tpc[t].at = "check"
    /\ At(t, IF Resident(Cache(tpc[t].m)) THEN "returned" ELSE "exists")
    /\ UNCHANGED <<config, cache, table, now, pc, request, budget, downloads,
                   call, local_history>>

\* `if not os.path.exists(model.onnx)`
ThreadExists(t) ==
    /\ tpc[t].at = "exists"
    /\ At(t, IF NeedsDownload(Cache(tpc[t].m)) THEN "download"
             ELSE "tokenizer")
    /\ UNCHANGED <<config, cache, table, now, pc, request, budget, downloads,
                   call, local_history>>

\* `download_model_from_s3()`
ThreadDownload(t, o) ==
    /\ tpc[t].at = "download"
    /\ LET c == download_model_from_s3(tpc[t].m, Cache(tpc[t].m), o)
       IN  /\ SetCache(tpc[t].m, c)
           /\ CountDownload(tpc[t].m, c)
           /\ At(t, IF c.raised THEN "raised" ELSE "tokenizer")
    /\ UNCHANGED <<config, table, now, pc, request, budget, call, local_history>>

\* `tokenizer = Tokenizer.from_file(...)`
ThreadTokenizer(t) ==
    /\ tpc[t].at = "tokenizer"
    /\ LET c == LoadTokenizer(Cache(tpc[t].m))
       IN  /\ SetCache(tpc[t].m, c)
           /\ At(t, IF c.raised THEN "raised" ELSE "session")
    /\ UNCHANGED <<config, table, now, pc, request, budget, downloads, call,
                   local_history>>

\* `model = ort.InferenceSession(...)`
ThreadSession(t) ==
    /\ tpc[t].at = "session"
    /\ LET c == LoadSession(Cache(tpc[t].m))
       IN  /\ SetCache(tpc[t].m, c)
           /\ At(t, IF c.raised THEN "raised" ELSE "returned")
    /\ UNCHANGED <<config, table, now, pc, request, budget, downloads, call,
                   local_history>>

\* the call is over; the thread serves its next request
ThreadDone(t) ==
    /\ tpc[t].at \in {"returned", "raised"}
    /\ At(t, "idle")
    /\ UNCHANGED <<config, cache, table, now, pc, request, budget, downloads,
                   call, local_history>>

ThreadCalls == \E t \in 1..MaxThreads, m \in Modules : ThreadCall(t, m)

ThreadChecks == \E t \in 1..MaxThreads : ThreadCheck(t)

ThreadExistsChecks == \E t \in 1..MaxThreads : ThreadExists(t)

ThreadDownloads ==
    \E t \in 1..MaxThreads, o \in DownloadOutcomes : ThreadDownload(t, o)

ThreadTokenizers == \E t \in 1..MaxThreads : ThreadTokenizer(t)

ThreadSessions == \E t \in 1..MaxThreads : ThreadSession(t)

ThreadDones == \E t \in 1..MaxThreads : ThreadDone(t)

NextThreads ==
    \/ ThreadCalls
    \/ ThreadChecks
    \/ ThreadExistsChecks
    \/ ThreadDownloads
    \/ ThreadTokenizers
    \/ ThreadSessions
    \/ ThreadDones

SpecThreads == Init /\ [][NextThreads]_vars

----------------------------------------------------------------------------
(* Specification of the row keys: direct calls of save_batch_results and of  *)
(* get_batch_results on one table, with row indices of every width          *)

\* row indices below 10^6, around every change of the number of digits
RowSamples == {0, 9, 10, 99, 100, 99999, 100000, 999999}

\* the result of a successful row of index r
SampleResult(r) ==
    ProcessRow(<<>>, [row |-> r, text |-> TPos, user_id |-> "u1"],
               [raised |-> FALSE, event |-> "ok",
                result |-> InferenceResult(TPos)])[1]

\* the row items of the table
StoredRows(t) == {k \in DOMAIN t : k.SK[1] = "ROW"}

\* save_batch_results(batch_id, results) for the results of the rows r1 and
\* r2; `results` keeps the argument of the call
SaveBatchResultsCall(b, r1, r2) ==
    /\ pc = "idle"
    /\ r1 <= r2
    /\ LET res == IF r1 = r2 THEN <<SampleResult(r1)>>
                  ELSE <<SampleResult(r1), SampleResult(r2)>>
           saved == save_batch_results(table, b, res, now, 0)
       IN  /\ Cardinality(StoredRows(saved.table)) <= MaxStored
           /\ table' = saved.table
           /\ results' = res
    /\ UNCHANGED <<config, cache, now, pc, body, query, batch_id, rows, i,
                   inferred, put_failed, published, response, budget, direct>>

\* get_batch_results(batch_id); the payload is kept in `response`
GetBatchResultsCall(b) ==
    /\ pc = "idle"
    /\ LET got == get_batch_results(table, b, "ok")
       IN  /\ query' = [NoQuery EXCEPT !.batch_id = b, !.reads = got.reads]
           /\ response' = Response("history", 200, got.payload)
    /\ UNCHANGED <<config, cache, table, now, pc, body, batch_id, rows, i,
                   results, inferred, put_failed, published, budget, direct>>

SaveBatchResultsCalls ==
    \E r1, r2 \in RowSamples : SaveBatchResultsCall(<<"b", 1>>, r1, r2)

GetBatchResultsCalls == GetBatchResultsCall(<<"b", 1>>)

NextKeys ==
    \/ SaveBatchResultsCalls
    \/ GetBatchResultsCalls

SpecKeys == InitStore /\ [][NextKeys]_vars

----------------------------------------------------------------------------
(* Specification of the local server (local_server.py): the routes /analyze *)
(* and /batch call lambda_handler of lambda_function.py and keep what it    *)
(* returned in the list local_history                                       *)

HistoryCap == 100

InitLocal == function = "local" /\ Cold

\* the item the routes append for a 200 answer of lambda_handler
LocalItem(user_id, text, answer, timestamp) ==
    [user_id |-> user_id, text |-> text, sentiment |-> answer.sentiment,
     confidence |-> answer.confidence, timestamp |-> timestamp]

\* `if len(local_history) > 100: local_history.pop(0)`
KeepLast(h) == IF Len(h) > HistoryCap THEN Tail(h) ELSE h

\* the route /analyze, one whole request: 400 without a `text` field,
\* otherwise the answer of lambda_handler, kept in local_history when it is 200
LocalAnalyze(has_text, text, user, o, put) ==
    /\ pc = "idle"
    /\ pc' = "done"
    /\ Len(local_history) < HistoryCap + MaxTexts
    /\ LET h == lambda_handler(Cache("analyzer"), table, text, user, o, FALSE,
                               put, now)
       IN  IF ~has_text
           THEN /\ response' = Response("local_analyze", 400,
                                        [error |-> "Missing text field"])
                /\ UNCHANGED <<cache, table, local_history>>
           ELSE /\ SetCache("analyzer", h.cache)
                /\ table' = h.table
                /\ response' = Response("local_analyze", h.response.statusCode,
                                        h.response.body)
                /\ local_history' =
                      IF h.response.statusCode = 200
                      THEN KeepLast(Append(local_history,
                               LocalItem(h.response.body.user_id, text,
                                         h.response.body, now)))
                      ELSE local_history
    /\ UNCHANGED <<config, now, request_locals, budget, downloads, call, tpc>>

RECURSIVE LocalBatchRows(_, _, _, _, _, _, _)
\* the loop of the route /batch from the k-th text on: lambda_handler is
\* called for each text with the user id "<user_id>-<index>", and a 200
\* answer is appended to local_history
LocalBatchRows(st, texts, k, user_id, o, put, timestamp) ==
    IF k > Len(texts) THEN st
    ELSE LET row_user == user_id \o "-" \o ToString(k - 1)
             h == lambda_handler(st.cache, st.table, texts[k], row_user, o,
                                 FALSE, put, timestamp)
             ok == h.response.statusCode = 200
         IN  LocalBatchRows(
                 [cache |-> [h.cache EXCEPT !.fetched = FALSE,
                                            !.raised = FALSE],
                  table |-> h.table,
                  history |-> IF ok
                              THEN Append(st.history,
                                       LocalItem(row_user, texts[k],
                                                 h.response.body, timestamp))
                              ELSE st.history,
                  success_count |-> st.success_count + (IF ok THEN 1 ELSE 0),
                  failed_count |-> st.failed_count + (IF ok THEN 0 ELSE 1)],
                 texts, k + 1, user_id, o, put, timestamp)

\* the route /batch, one whole request: 400 without a `texts` field,
\* otherwise every text is analyzed and the counts are answered
LocalBatch(has_texts, texts, user, o, put) ==
    /\ pc = "idle"
    /\ pc' = "done"
    /\ Len(local_history) < HistoryCap + MaxTexts
    /\ LET st == LocalBatchRows(
                     [cache |-> Cache("analyzer"), table |-> table,
                      history |-> local_history, success_count |-> 0,
                      failed_count |-> 0],
                     texts, 1, OrDefault(user, "batch-user"), o, put, now)
       IN  IF ~has_texts
           THEN /\ response' = Response("local_batch", 400,
                                        [error |-> "Missing texts field"])
                /\ UNCHANGED <<cache, table, local_history>>
           ELSE /\ SetCache("analyzer", st.cache)
                /\ table' = st.table
                /\ local_history' = st.history
                /\ response' =
                      Response("local_batch", 200,
                               [batch_id |-> GeneratedId(now),
                                total_rows |-> Len(texts),
                                success_count |-> st.success_count,
                                failed_count |-> st.failed_count,
                                status |-> "COMPLETED"])
    /\ UNCHANGED <<config, now, request_locals, budget, downloads, call, tpc>>

\* the texts of a /batch request: only the first may succeed
LocalBatchTexts == {<<TPos>>, <<TBad>>, <<TPos, TBad>>}

LocalAnalyzeRequest ==
    \E has_text \in BOOLEAN, text \in {TPos, TBad},
       o \in {Healthy, Unreachable}, put \in {"ok"} :
        LocalAnalyze(has_text, text, "u1-0", o, put)

LocalBatchRequest ==
    \E has_texts \in BOOLEAN, texts \in LocalBatchTexts,
       o \in {Healthy, Unreachable}, put \in {"ok"} :
        LocalBatch(has_texts, texts, "u1", o, put)

NextLocal ==
    \/ LocalAnalyzeRequest
    \/ LocalBatchRequest
    \/ Returned

SpecLocal == InitLocal /\ [][NextLocal]_vars

----------------------------------------------------------------------------
(* Properties of the batch row loop (Spec) *)

BatchAnswered == pc = "done" /\ response.handler = "batch"

BatchCompleted == BatchAnswered /\ response.statusCode = 200

\* the rows of the request whose inference did / did not succeed
InferenceSucceeded == {k \in 1..Len(inferred) : inferred[k] = "ok"}

InferenceFailed == {k \in 1..Len(inferred) : inferred[k] # "ok"}

\* C1: in the batch handler the result list holds exactly one result per
\* input row: after each iteration there are as many results as rows taken,
\* a failure on a row neither ends the loop nor skips a later row, and a
\* request that has rows is answered with all of them counted.
C1_OneResultPerRow ==
    /\ pc = "loop" => i <= Len(rows) /\ Len(results) = i
    /\ (BatchAnswered /\ rows # <<>>) =>
          /\ Len(results) = Len(rows)
          /\ response.statusCode = 200
          /\ response.body.total_rows = Len(rows)

\* C1 witness: a batch of three rows is answered although the model could
\* not be loaded for the first row and the inference of the second raised.
C1_Witness ==
    /\ BatchCompleted
    /\ Len(rows) = 3
    /\ inferred = <<"load_raised", "infer_raised", "ok">>
    /\ Len(results) = 3

\* C2: every row whose inference failed, the rows for which analyze_sentiment
\* returned the ERROR sentinel included, is recorded with status 'failed' and
\* an error message, and no row result has sentiment 'ERROR' with status
\* 'success'.
C2_FailedRowsRecorded ==
    pc \in {"loop", "done"} =>
        \A k \in 1..Len(results) :
            /\ inferred[k] # "ok" =>
                  results[k].status = "failed" /\ results[k].error # ""
            /\ ~(results[k].sentiment = "ERROR" /\ results[k].status = "success")

\* C3: success_count is the number of rows whose inference succeeded and
\* failed_count the number of rows whose inference failed, in the response
\* and in the summary the request stored.
C3_CountsMatchInference ==
    BatchCompleted =>
        /\ response.body.success_count = Cardinality(InferenceSucceeded)
        /\ response.body.failed_count = Cardinality(InferenceFailed)
        /\ LET key == [PK |-> BatchPK(batch_id), SK |-> SummarySK]
           IN  key \in DOMAIN table =>
                  /\ table[key].success_count = Cardinality(InferenceSucceeded)
                  /\ table[key].failed_count = Cardinality(InferenceFailed)

\* C4: the rows are processed in input order: the k-th result is the result
\* of the k-th input row and carries its row index, whichever rows failed.
C4_InputOrder ==
    pc \in {"loop", "done"} =>
        \A k \in 1..Len(results) :
            /\ k <= Len(rows)
            /\ results[k].row = rows[k].row
            /\ results[k].text = rows[k].text
            /\ results[k].row = k - 1

\* C4 witness: three rows 0, 1, 2 of which the first two failed.
C4_Witness ==
    /\ BatchCompleted
    /\ [k \in 1..Len(results) |-> results[k].row] = <<0, 1, 2>>
    /\ [k \in 1..Len(results) |-> results[k].status]
           = <<"failed", "failed", "success">>

\* the items of the table that carry the counts of a batch
CountItems == {k \in DOMAIN table : k.SK[1] \in {"SUMMARY", "BATCH"}}

\* C5: every stored SUMMARY item, every stored user-batch link and every 200
\* response of the batch handler has success_count + failed_count equal to
\* total_rows.
C5_CountsAddUp ==
    /\ \A k \in CountItems :
          table[k].success_count + table[k].failed_count = table[k].total_rows
    /\ BatchCompleted =>
          response.body.success_count + response.body.failed_count
              = response.body.total_rows

\* C5 witness: a summary and a link are stored for a batch with successes,
\* failures and a row that holds the ERROR sentinel.
C5_Witness ==
    /\ BatchCompleted
    /\ response.body.success_count > 0
    /\ response.body.failed_count > 0
    /\ \E k \in 1..Len(results) : results[k].sentiment = "ERROR"
    /\ \E k \in CountItems : k.SK[1] = "SUMMARY" /\ table[k].failed_count > 0
    /\ \E k \in CountItems : k.SK[1] = "BATCH" /\ table[k].failed_count > 0

----------------------------------------------------------------------------
(* Properties of the model cache *)

\* C6 as stated: over any sequence of load_model / analyze_sentiment calls
\* download_model_from_s3 is performed at most once, and a call that finds
\* model and tokenizer resident leaves both unchanged.
C6_FetchedAtMostOnce ==
    /\ \A m \in Modules : downloads[m] <= 1
    /\ (call.fn # "none" /\ call.before.model # None
                         /\ call.before.tokenizer # None) =>
          /\ model[call.module] = call.before.model
          /\ tokenizer[call.module] = call.before.tokenizer

\* C6 amended: download_model_from_s3 is performed only by a call that finds
\* no model.onnx under MODEL_PATH, hence never again once a fetch has
\* delivered it; and a call that finds model and tokenizer resident fetches
\* nothing, raises nothing from loading and leaves model, tokenizer and
\* files unchanged.
C6_FetchedWhileMissing ==
    call.fn # "none" =>
        /\ call.fetched => ModelFile \notin call.before.files
        /\ (call.before.model # None /\ call.before.tokenizer # None) =>
              /\ ~call.fetched
              /\ call.event # "load_raised"
              /\ model[call.module] = call.before.model
              /\ tokenizer[call.module] = call.before.tokenizer
              /\ files[call.module] = call.before.files

\* C6 witness: a second fetch (the first one delivered no model.onnx) made
\* the model resident, and a later call found it resident.
C6_Witness ==
    /\ call.fn = "analyze_sentiment"
    /\ call.before.model # None
    /\ call.before.tokenizer # None
    /\ downloads[call.module] = 2

\* the threads between the check of the globals and the end of load_model
Loading(m) ==
    {t \in 1..MaxThreads :
        tpc[t].m = m /\ tpc[t].at \in {"exists", "download", "tokenizer",
                                       "session"}}

\* C7: concurrent first calls of load_model exclude each other: at most one
\* thread is past the check of the globals and executing the download and
\* load sequence.
C7_MutualExclusion == \A m \in Modules : Cardinality(Loading(m)) <= 1

\* C8: a request for which the model could not be fetched or loaded is
\* answered with statusCode 500 by both handlers; the batch handler never
\* answers 200 COMPLETED when the model could not be loaded for any row.
C8_LoadFailureIsFatal ==
    (pc = "done" /\ inferred # <<>>
                 /\ \A k \in 1..Len(inferred) : inferred[k] = "load_raised") =>
        response.statusCode = 500

\* C9: analyze_sentiment of either module never lets an exception of the
\* tokenizer or of the forward pass out: it returns the ERROR sentinel.
C9_SentinelNotException ==
    (call.fn = "analyze_sentiment" /\ call.event = "infer_raised") =>
        ~call.raised /\ call.result = ErrorSentinel

----------------------------------------------------------------------------
(* Properties of the writes (Spec) *)

\* C10: a put_item that fails never costs the caller its result: the analyze
\* handler still answers 200 with sentiment and confidence and with
\* db_save_status.success false, the batch handler still answers 200 with
\* the counts of the batch.
C10_ResultDespiteFailedWrite ==
    (pc = "done" /\ put_failed) =>
        /\ response.statusCode = 200
        /\ response.handler = "analyze" =>
              /\ response.body.db_save_status.success = FALSE
              /\ response.body.sentiment \in {"POSITIVE", "NEGATIVE"}
              /\ response.body.confidence[1] > 0
        /\ response.handler = "batch" =>
              /\ response.body.total_rows = Len(rows)
              /\ response.body.success_count = SuccessCount(results)
              /\ response.body.failed_count
                     = Len(rows) - SuccessCount(results)

\* C10 witness: the put of the summary failed after the rows were written
\* and the batch is answered.
C10_Witness ==
    /\ BatchAnswered
    /\ put_failed
    /\ \E k \in DOMAIN table : k.SK[1] = "ROW"
    /\ \A k \in DOMAIN table : k.SK[1] # "SUMMARY"

----------------------------------------------------------------------------
(* Properties of the validation *)

\* a text that is empty, whitespace only or longer than 5000 characters
Invalid(text) == text.len = 0 \/ text.blank \/ text.len > 5000

\* C11: an analyze request whose text is missing, empty, whitespace only or
\* longer than 5000 characters is answered 400 and the step loads no model,
\* calls no analyze_sentiment and writes nothing; every other text passes
\* validation and reaches analyze_sentiment.
C11_RejectedBeforeInference ==
    [][(pc = "idle" /\ pc' = "done" /\ response'.handler = "analyze"
                    /\ body'.texts[1].str) =>
          IF Invalid(body'.texts[1])
          THEN /\ response'.statusCode = 400
               /\ inferred' = <<>>
               /\ UNCHANGED <<model, tokenizer, files, table>>
          ELSE /\ response'.statusCode # 400
               /\ Len(inferred') = 1]_vars

\* C11 witness: a whitespace-only text is rejected by a process that is cold.
C11_Witness ==
    /\ pc = "done"
    /\ response.handler = "analyze"
    /\ response.statusCode = 400
    /\ body.texts = <<TBlank>>
    /\ model["analyzer"] = None
    /\ files["analyzer"] = {}

\* C12: in the batch handler no row text that is empty after trimming or
\* longer than 5000 characters reaches analyze_sentiment.
C12_RowsValidatedBeforeInference ==
    \A k \in 1..Len(inferred) :
        (k <= Len(rows) /\ rows[k].text.str) => ~Invalid(rows[k].text)

\* C13: a batch request that yields no rows is answered 400 (500 when the
\* CSV could not be read) by the step that parsed it: the row loop is entered
\* only with rows, and the rejecting step runs no inference, writes nothing
\* and publishes nothing.
C13_EmptyBatchRejected ==
    [][(pc = "idle" /\ pc' # "idle"
                    /\ response'.handler \notin {"analyze", "history"}) =>
          /\ pc' = "loop" => rows' # <<>>
          /\ rows' = <<>> =>
                /\ pc' = "done"
                /\ response'.handler = "batch"
                /\ response'.statusCode \in {400, 500}
                /\ response'.statusCode = 500 =>
                      body'.texts = <<>> /\ body'.key # "" /\ AWS_AVAILABLE
                /\ inferred' = <<>>
                /\ published' = <<>>
                /\ UNCHANGED <<model, tokenizer, files, table>>]_vars

\* C13 witness: a CSV that yields no rows is rejected.
C13_Witness ==
    /\ BatchAnswered
    /\ response.statusCode = 400
    /\ body.key # ""
    /\ rows = <<>>
    /\ table = EmptyTable

----------------------------------------------------------------------------
(* Properties of the reads (SpecStore) *)

HistoryAnswered == pc = "done" /\ response.handler = "history"

\* the history request read the results of a batch from the table
BatchRead ==
    /\ HistoryAnswered
    /\ response.statusCode = 200
    /\ query.batch_id # AbsentId
    /\ AWS_AVAILABLE
    /\ response.body.found

\* C14: get_batch_results(b) for a saved batch returns the counts that were
\* written in its summary and as many row results as the summary's
\* total_rows, with the row indices 0, 1, ..., n-1 in this order.
C14_RoundTrip ==
    BatchRead =>
        LET got == response.body
            summary == table[[PK |-> BatchPK(query.batch_id), SK |-> SummarySK]]
        IN  /\ got.total_rows = summary.total_rows
            /\ got.success_count = summary.success_count
            /\ got.failed_count = summary.failed_count
            /\ Len(got.results) = got.total_rows
            /\ \A k \in 1..Len(got.results) : got.results[k].row = k - 1

\* C15: get_batch_results for a batch_id whose summary read finds no item
\* returns the payload {error: 'Batch not found', batch_id} after that one
\* get_item, without a query of the row items, and the handler answers 200.
C15_BatchNotFound ==
    (HistoryAnswered /\ query.batch_id # AbsentId
                     /\ query.reads # <<>> /\ query.reads[1] = "get_item"
                     /\ [PK |-> BatchPK(query.batch_id), SK |-> SummarySK]
                            \notin DOMAIN table) =>
        /\ response.statusCode = 200
        /\ ~response.body.found
        /\ response.body.batch_id = query.batch_id
        /\ response.body.results = <<>>
        /\ query.reads = <<"get_item">>

\* C15 witness: the batch has row items but no summary (the put of the
\* summary failed), and it is reported as not found.
C15_Witness ==
    /\ HistoryAnswered
    /\ response.statusCode = 200
    /\ query.batch_id # AbsentId
    /\ AWS_AVAILABLE
    /\ ~response.body.found
    /\ \E k \in DOMAIN table :
          k.PK = BatchPK(query.batch_id) /\ k.SK[1] = "ROW"

----------------------------------------------------------------------------
(* Properties of the analysis records *)

\* the step is an analyze request, served from start to end
AnalyzeStep == pc = "idle" /\ pc' = "done" /\ response'.handler = "analyze"

\* C16: two analyze requests of a user that complete one after the other get
\* distinct sort keys: the record a request saves is stored under a key that
\* held no record before, so no earlier record is overwritten.
C16_DistinctSortKeys ==
    [][(AnalyzeStep /\ AWS_AVAILABLE /\ response'.statusCode = 200
                    /\ response'.body.db_save_status.success) =>
          [PK |-> UserPK(response'.body.user_id), SK |-> AnalysisSK(now)]
              \notin DOMAIN table]_vars

\* C17: with the store available, every analyze request that passes
\* validation and completes, its inference succeeding or failing, leaves one
\* record of the request in the table, and no record written earlier is
\* changed by it.
C17_RecordPerRequest ==
    [][(AnalyzeStep /\ AWS_AVAILABLE /\ body'.texts[1].str
                    /\ ~Invalid(body'.texts[1]) /\ ~put_failed'
                    /\ (response'.statusCode = 200 =>
                           response'.body.db_save_status.success)) =>
          LET key == [PK |-> UserPK(OrDefault(body'.user_id, "anonymous")),
                      SK |-> AnalysisSK(now)]
          IN  /\ key \in DOMAIN table'
              /\ table'[key].text = body'.texts[1]
              /\ \A k \in DOMAIN table :
                    k \in DOMAIN table' /\ table'[k] = table[k]]_vars

----------------------------------------------------------------------------
(* Properties of the timeline (SpecStore) *)

\* the history request read the timeline of a user from the table
TimelineRead ==
    /\ HistoryAnswered
    /\ response.statusCode = 200
    /\ query.batch_id = AbsentId
    /\ query.user_id # Absent
    /\ AWS_AVAILABLE
    /\ query.reads = <<"query">>

\* the items of the user's partition: analysis records and user-batch links
UserItems(user_id) == {k \in DOMAIN table : k.PK = UserPK(user_id)}

\* C18: the timeline holds the user's analysis records and batch links, most
\* recent first: an entry never has a smaller timestamp than an entry after
\* it, whatever their types, and when the limit cuts the list the entries
\* kept are as many as the limit and none is older than an item left out.
C18_MostRecentFirst ==
    TimelineRead =>
        LET h == response.body.history
            all == UserItems(query.user_id)
        IN  /\ \A j, k \in 1..Len(h) :
                  j < k => h[j].timestamp >= h[k].timestamp
            /\ Len(h) = IF Cardinality(all) < query.served
                        THEN Cardinality(all) ELSE query.served
            /\ \A k \in 1..Len(h) :
                  Cardinality({x \in all : table[x].timestamp > h[k].timestamp})
                      < k

\* the history request asked for the timeline of a user: get_user_history is
\* called with the served limit
TimelineAsked ==
    /\ HistoryAnswered
    /\ query.batch_id = AbsentId
    /\ query.user_id # Absent
    /\ query.limit # NotANumber

\* C19: the limit handed to get_user_history is always in 1..1000: a
\* requested limit above 1000 is served as 1000, one below 1 as 10, one within
\* 1..1000 unchanged and an omitted one as 50; a timeline read from the table
\* holds no more entries than the served limit.
C19_LimitClamped ==
    TimelineAsked =>
        /\ query.served \in 1..1000
        /\ query.limit = <<>> => query.served = 50
        /\ query.limit # <<>> =>
              LET asked == query.limit[1]
              IN  /\ asked > 1000 => query.served = 1000
                  /\ asked < 1 => query.served = 10
                  /\ asked \in 1..1000 => query.served = asked
        /\ TimelineRead => Len(response.body.history) <= query.served

C19_Witness ==
    /\ TimelineAsked
    /\ query.limit = <<1001>>
    /\ query.served = 1000
    /\ TimelineRead
    /\ Len(response.body.history) >= 2

----------------------------------------------------------------------------
(* Properties of the row indices *)

\* the row indices of a sequence of rows or of row results
RowIndices(seq) == [k \in 1..Len(seq) |-> seq[k].row]

\* the row indices of the row items stored in a partition
StoredIndices(pk) ==
    {FromDigits(k.SK[2]) : k \in {x \in DOMAIN table :
                                     x.PK = pk /\ x.SK[1] = "ROW"}}

\* C20: the row indices of a batch are unique, zero-based and contiguous in
\* input order: the n rows built from a `texts` array or read from a CSV are
\* numbered 0..n-1 (a `texts` array gives one row per text, in its order),
\* the row results carry the same indices, and the row items stored under a
\* batch are those of the indices 0..m-1 for some m.
C20_RowIndexContiguous ==
    pc \in {"loop", "done"} =>
        /\ \A k \in 1..Len(rows) : rows[k].row = k - 1
        /\ \A j, k \in 1..Len(rows) : j # k => rows[j].row # rows[k].row
        /\ (rows # <<>> /\ body.texts # <<>>) =>
              /\ Len(rows) = Len(body.texts)
              /\ \A k \in 1..Len(rows) : rows[k].text = body.texts[k]
        /\ RowIndices(results) = [k \in 1..Len(results) |-> k - 1]
        /\ \A b \in {k.PK : k \in DOMAIN table} :
              StoredIndices(b) = 0..(Cardinality(StoredIndices(b)) - 1)

\* C20 witness: a CSV of three lines was processed and its results 0, 1, 2
\* were stored under the row keys 0, 1, 2.
C20_Witness ==
    /\ BatchCompleted
    /\ AWS_AVAILABLE
    /\ body.texts = <<>>
    /\ body.key # ""
    /\ RowIndices(rows) = <<0, 1, 2>>
    /\ RowIndices(results) = <<0, 1, 2>>
    /\ \A k \in 1..3 :
          [PK |-> BatchPK(batch_id), SK |-> RowSK(k - 1)] \in DOMAIN table

----------------------------------------------------------------------------
(* Properties of the items of a batch *)

\* the step of the batch handler that saves the batch: the table changed and
\* no put_item raised
BatchSaved ==
    /\ pc = "loop"
    /\ pc' = "done"
    /\ response'.statusCode = 200
    /\ AWS_AVAILABLE
    /\ ~put_failed'
    /\ table' # table

\* the keys of the items the step put or replaced
Written == {k \in DOMAIN table' : k \notin DOMAIN table \/ table'[k] # table[k]}

\* C21: a saved batch has its user-batch link under the user of its first
\* input row, whether that row succeeded or failed, and the step that saves
\* the batch writes no link under any other user.
C21_LinkUnderFirstRowUser ==
    [][BatchSaved =>
          LET link == [PK |-> UserPK(rows[1].user_id), SK |-> BatchSK(batch_id)]
          IN  /\ link \in DOMAIN table'
              /\ table'[link].batch_id = batch_id
              /\ \A k \in Written : k.SK = BatchSK(batch_id) => k = link]_vars

\* the SUMMARY items the step put or replaced
WrittenSummaries == {k \in Written : k.SK = SummarySK}

BatchStep == pc' # "idle" /\ response'.handler \notin {"analyze", "history"}

\* C23: a batch request fixes one batch_id when it starts, the caller's or a
\* generated one, and keeps it: the row items and the SUMMARY it writes are in
\* the partition BATCH#{batch_id}, the user-batch link it writes has the
\* sort key BATCH#{batch_id} and the field batch_id, and its response and its
\* notification carry this batch_id.
C23_OneBatchId ==
    [][BatchStep =>
          /\ pc = "idle" =>
                batch_id' = IF body'.batch_id = AbsentId THEN GeneratedId(now)
                            ELSE body'.batch_id
          /\ pc = "loop" => batch_id' = batch_id
          /\ \A k \in Written :
                \/ k.PK = BatchPK(batch_id') /\ k.SK[1] \in {"ROW", "SUMMARY"}
                \/ /\ k.PK[1] = "USER"
                   /\ k.SK = BatchSK(batch_id')
                   /\ table'[k].batch_id = batch_id'
          /\ (pc' = "done" /\ response'.statusCode = 200) =>
                response'.body.batch_id = batch_id'
          /\ published' # published =>
                /\ Len(published') = Len(published) + 1
                /\ published'[Len(published')].batch_id = batch_id']_vars

\* C23 witness: a batch without a caller's batch_id was saved under the
\* generated one, linked to its user, announced and answered.
C23_Witness ==
    /\ BatchCompleted
    /\ AWS_AVAILABLE
    /\ body.batch_id = AbsentId
    /\ batch_id[1] = "batch-"
    /\ response.body.batch_id = batch_id
    /\ published # <<>>
    /\ published[Len(published)].batch_id = batch_id
    /\ [PK |-> BatchPK(batch_id), SK |-> SummarySK] \in DOMAIN table
    /\ \E k \in DOMAIN table : k.SK = BatchSK(batch_id)

----------------------------------------------------------------------------
(* Properties of the inference *)

\* what a successful inference must return for the logits x: NEGATIVE when
\* index 0 holds the maximum, POSITIVE when index 1 does, and as confidence
\* the larger of two probabilities that sum to 1
SoundResult(x, sentiment, confidence) ==
    LET p == softmax(x)
    IN  /\ sentiment \in {"POSITIVE", "NEGATIVE"}
        /\ x[1] >= x[2] => sentiment = "NEGATIVE"
        /\ x[2] > x[1] => sentiment = "POSITIVE"
        /\ p[1][2] = p[2][2]
        /\ p[1][1] + p[2][1] = p[1][2]
        /\ confidence \in {p[1], p[2]}
        /\ confidence[1] >= p[1][1] /\ confidence[1] >= p[2][1]
        /\ 2 * confidence[1] >= confidence[2]
        /\ confidence[1] <= confidence[2]

\* C24: a successful inference, of the analyzer or of a batch row, returns
\* NEGATIVE when logit 0 is the argmax and POSITIVE when logit 1 is, never
\* another label, and as confidence the larger of the two softmax
\* probabilities, which sum to 1, so a confidence between 1/2 and 1.
C24_ArgmaxOfSoftmax ==
    /\ (pc = "done" /\ response.handler = "analyze"
            /\ response.statusCode = 200) =>
          SoundResult(body.texts[1].logits, response.body.sentiment,
                      response.body.confidence)
    /\ (pc \in {"loop", "done"} /\ response.handler # "analyze") =>
          \A k \in 1..Len(results) :
              (k <= Len(inferred) /\ inferred[k] = "ok") =>
                  SoundResult(rows[k].text.logits, results[k].sentiment,
                              results[k].confidence)

\* C24 witness: the analyzer answered NEGATIVE with confidence 1/2 for a text
\* whose two logits are equal.
C24_Witness ==
    /\ pc = "done"
    /\ response.handler = "analyze"
    /\ response.statusCode = 200
    /\ body.texts[1].logits[1] = body.texts[1].logits[2]
    /\ response.body.sentiment = "NEGATIVE"
    /\ 2 * response.body.confidence[1] = response.body.confidence[2]

----------------------------------------------------------------------------
(* Properties of the error responses *)

\* the generic messages of the three handlers
GenericErrors ==
    {"Internal server error", "Batch processing failed",
     "Failed to retrieve history"}

\* C25: a request that met an unexpected failure is answered with status 500
\* and a body that carries a generic message and nothing else: no field of
\* the body holds the text of the exception.
C25_GenericErrorOnly ==
    (pc = "done" /\ response.statusCode = 500) =>
        /\ response.body.error \in GenericErrors
        /\ DOMAIN response.body = {"error"}

----------------------------------------------------------------------------
(* Properties of the history requests (SpecStore) *)

\* the history request named neither a user nor a batch
NeitherNamed ==
    HistoryAnswered /\ query.user_id = Absent /\ query.batch_id = AbsentId

\* the answer to a history request that named neither a user nor a batch
RejectedUnread ==
    /\ response.statusCode = 400
    /\ response.body.error = "Either user_id or batch_id parameter is required"
    /\ query.reads = <<>>

\* the read of the store raised
ReadRaised == query.reads \in {<<"query raised">>, <<"get_item raised">>}

\* C26 as stated: a history request with neither user_id nor batch_id is
\* answered 400 with the error 'Either user_id or batch_id parameter is
\* required' without a read of the store, and every request with a user_id
\* or a batch_id is answered 200.
C26_NeitherRejected ==
    HistoryAnswered =>
        IF NeitherNamed THEN RejectedUnread ELSE response.statusCode = 200

\* C26 amended: the same for the requests whose limit is omitted or an
\* integer, and a request with a user_id or a batch_id is answered 200
\* unless the read of the store fails, and then 500.
C26_NeitherRejectedElseRead ==
    (HistoryAnswered /\ query.limit # NotANumber) =>
        IF NeitherNamed THEN RejectedUnread
        ELSE IF ReadRaised THEN response.statusCode = 500
        ELSE response.statusCode = 200

\* C26 witness: a request with neither parameter was rejected while the table
\* held items, and none was read.
C26_Witness ==
    /\ NeitherNamed
    /\ query.limit = <<>>
    /\ RejectedUnread
    /\ AWS_AVAILABLE
    /\ table # EmptyTable

----------------------------------------------------------------------------
(* Properties of the row keys (SpecKeys) *)

\* the indices parsed from the row items in the order the table returns them
IndicesInKeyOrder(b) ==
    LET items == Query(table, BatchPK(b), "ROW", TRUE, RowQueryLimit)
    IN  [k \in 1..Len(items) |-> FromDigits(items[k].SK[2])]

\* C27: for row indices below 10^6 the order of the sort keys as strings is
\* the order of the indices: of two saved rows the one with the smaller
\* index has the smaller sort key, the table returns the row items of a batch
\* by increasing index, and the index parsed from a sort key is the index
\* the row was saved with.
C27_PaddedKeysInOrder ==
    /\ \A a, b \in 1..Len(results) :
          results[a].row < results[b].row =>
              LexLess(SortString(RowSK(results[a].row)),
                      SortString(RowSK(results[b].row)))
    /\ \A a \in 1..Len(results) :
          /\ Len(RowSK(results[a].row)[2]) = 6
          /\ FromDigits(RowSK(results[a].row)[2]) = results[a].row
    /\ AWS_AVAILABLE =>
          LET read == IndicesInKeyOrder(<<"b", 1>>)
          IN  /\ \A j, k \in 1..Len(read) : j < k => read[j] < read[k]
              /\ \A a \in 1..Len(results) :
                    \E k \in 1..Len(read) : read[k] = results[a].row
              /\ \A k \in 1..Len(read) : read[k] \in RowSamples
    /\ (AWS_AVAILABLE /\ response.handler = "history"
            /\ query.reads = <<"get_item", "query">>) =>
          \A j, k \in 1..Len(response.body.results) :
              /\ response.body.results[k].row \in RowSamples
              /\ j < k => response.body.results[j].row
                              < response.body.results[k].row

\* C27 witness: the rows 9, 10 and 100000 were saved and read back.
C27_Witness ==
    /\ AWS_AVAILABLE
    /\ pc = "idle"
    /\ response.handler = "history"
    /\ query.reads = <<"get_item", "query">>
    /\ [k \in 1..Len(response.body.results) |-> response.body.results[k].row]
           = <<9, 10, 100000>>
    /\ IndicesInKeyOrder(<<"b", 1>>) = <<9, 10, 100000>>

----------------------------------------------------------------------------
(* Properties of the local server (SpecLocal) *)

\* C28: after any sequence of /analyze and /batch requests of the local
\* server, local_history holds at most 100 items.
C28_LocalHistoryCapped == Len(local_history) <= HistoryCap

----------------------------------------------------------------------------
(* Properties of the stored batches (SpecStore) *)

\* C29: whenever the table holds the SUMMARY item of a batch_id, the number
\* of row items stored under this batch_id is the total_rows of the summary,
\* also after requests that used the batch_id again.
C29_RowsMatchSummary ==
    \A k \in DOMAIN table :
        k.SK = SummarySK =>
            Cardinality({r \in StoredRows(table) : r.PK = k.PK})
                = table[k].total_rows

----------------------------------------------------------------------------
(* Properties of a failed load (SpecCache) *)

\* C30: after a call of load_model, whether it returned or raised, model and
\* tokenizer of the module are both set or both None, and a call that raised
\* has left both None.
C30_LoadedTogether ==
    call.fn # "none" =>
        /\ \A m \in Modules : (model[m] = None) <=> (tokenizer[m] = None)
        /\ (call.raised /\ call.event = "load_raised") =>
              /\ model[call.module] = None
              /\ tokenizer[call.module] = None

====
